---- MODULE Spec2Model ----
(***************************************************************************)
(* A model of the CUDA-wrappers repository: the error-translation check    *)
(* functions, the owning wrappers nvrtc::Program and nvml::Device, the     *)
(* cu::DeviceMemory typing policy and the vector-addition test scenario.   *)
(* The vendor libraries are the environment: every native call returns a  *)
(* status chosen nondeterministically.                                     *)
(***************************************************************************)
EXTENDS Integers, Sequences, FiniteSets, TLC

\* ---------------------------------------------------------------- bounds
MaxPrograms == 2      \* nvrtc::Program objects that can be in scope at once
MaxHandles == 2       \* native programs nvrtcCreateProgram can hand out
MaxError == 2         \* non-success status codes are 1..MaxError
MaxSize == 1          \* sizes the native size queries report are 0..MaxSize
MaxDestroyCalls == 2  \* nvrtcDestroyProgram calls counted per handle
MaxDevices == 2       \* nvml::Device objects that can be in scope at once
MaxInit == 3          \* nvmlInit calls not yet matched by nvmlShutdown
MaxIndex == 1         \* device indices are 0..MaxIndex
MaxMemories == 2      \* cu::DeviceMemory objects that can be in scope at once
MaxBytes == 2         \* buffer sizes are 1..MaxBytes
N == 3                \* the vector length of the test, scaled down from 1024

\* ------------------------------------------------------- vendor constants
NVRTC_SUCCESS == 0
NVML_SUCCESS == 0
CUDA_SUCCESS == 0
CU_MEM_ATTACH_GLOBAL == 1
CU_MEM_ATTACH_HOST == 2

Results == 0..MaxError
Sizes == 0..MaxSize
Handles == 1..MaxHandles
NullHandle == 0
Indices == 0..MaxIndex
DeviceHandles == {"set", "indeterminate"}
MemoryTypes == {"CU_MEMORYTYPE_HOST", "CU_MEMORYTYPE_DEVICE",
                "CU_MEMORYTYPE_ARRAY", "CU_MEMORYTYPE_UNIFIED"}
Flags == {0, CU_MEM_ATTACH_GLOBAL, CU_MEM_ATTACH_HOST}
Allocators == {"cuMemAlloc", "cuMemAllocManaged"}
Sections == {"Run kernel", "Run kernel with managed memory",
             "Run kernel with managed memory and prefetch"}
Buffers == {"h_a", "h_b", "h_c", "d_a", "d_b", "d_c", "reference_c"}
Junk == {0, 99}       \* what freshly allocated memory may hold

VARIABLES
  programs,      \* programs[h]: the nvrtc::Program objects in scope whose
                 \* member `program` is the native handle h
  nvState,       \* native side: "none", "Created", "Compiled", "Destroyed"
  nvStatus,      \* native side: how the compile attempt recorded ended:
                 \* "none", "passed", "failed"
  destroyCalls,  \* native side: nvrtcDestroyProgram calls made per handle
  devices,       \* devices[d]: the nvml::Device objects in scope whose member
                 \* device_ is d: "set" by a lookup, or "indeterminate"
  nvmlInitCount, \* native side: successful nvmlInit calls not yet matched
                 \* by a successful nvmlShutdown
  memories,      \* memories[a]: the cu::DeviceMemory objects in scope whose
                 \* buffer came from the native allocator a
  allocated,     \* native side: allocated[a]: buffers of allocator a not freed
  pc,            \* the vector-add test: the step the host runs next
  section,       \* the vector-add test: the SECTION this run of the test executes
  stream,        \* the vector-add test: the operations submitted to the stream
                 \* and not completed, oldest first
  mem,           \* the vector-add test: mem[b]: the floats of buffer b
  last           \* what the last wrapper operation did, as its caller sees it

nvrtcVars == <<programs, nvState, nvStatus, destroyCalls>>
nvmlVars == <<devices, nvmlInitCount>>
memVars == <<memories, allocated>>
testVars == <<pc, section, stream, mem>>
vars == <<nvrtcVars, nvmlVars, memVars, testVars, last>>
otherThanNvrtc == <<nvmlVars, memVars, testVars>>
otherThanNvml == <<nvrtcVars, memVars, testVars>>
otherThanMem == <<nvrtcVars, nvmlVars, testVars>>
otherThanTest == <<nvrtcVars, nvmlVars, memVars>>

\* ------------------------------------------------------ error translation
\* nvrtc::Error(result): the exception object keeps the status it is built from.
nvrtc_Error(result) == [_result |-> result]

\* nvrtc::Error::operator nvrtcResult()
nvrtc_Error_result(e) == e._result

\* checkNvrtcCall throwing an Error that lost the status it was called with.
checkNvrtcCall_lostCode(result) ==
  IF result # NVRTC_SUCCESS THEN <<nvrtc_Error(1)>> ELSE <<>>

\* The exceptions a call to checkNvrtcCall leaves propagating: none, or one.
checkNvrtcCall(result) ==
  IF result # NVRTC_SUCCESS THEN <<nvrtc_Error(result)>> ELSE <<>>

\* nvml::Error(result)
nvml_Error(result) == [_result |-> result]

\* nvml::Error::operator nvmlReturn_t()
nvml_Error_result(e) == e._result

\* The exceptions a call to checkNvmlCall leaves propagating: none, or one.
checkNvmlCall(result) ==
  IF result # NVML_SUCCESS THEN <<nvml_Error(result)>> ELSE <<>>

\* ------------------------------------------------------------- bookkeeping
NoCode == -1

Call(fn, h, st, arg) == [fn |-> fn, h |-> h, st |-> st, arg |-> arg]

\* The record of an operation: the handle it acted on (for DeviceMemory the
\* type and flags it was given), what the native side held before it (the
\* state of the handle, the unmatched nvmlInit count, the buffers allocated),
\* the native calls it made in order, how it ended for its caller, the code
\* of the Error raised and, for a query, the size reported and the length
\* of the result returned.
Done(op, h, pre, calls, outcome, code, size, len) ==
  [op |-> op, h |-> h, pre |-> pre, calls |-> calls, outcome |-> outcome,
   code |-> code, size |-> size, len |-> len]

\* cu::Error(result), cu::checkCudaCall(result) of cu.hpp.
cu_Error(result) == [_result |-> result]
checkCudaCall(result) == IF result # CUDA_SUCCESS THEN <<cu_Error(result)>> ELSE <<>>
CuCode(thrown) == IF thrown = <<>> THEN NoCode ELSE thrown[1]._result

\* The outcome a caller sees of a call to a checked native function.
Outcome(thrown) == IF thrown = <<>> THEN "ok" ELSE "raised"
Code(thrown) == IF thrown = <<>> THEN NoCode ELSE nvrtc_Error_result(thrown[1])
NvmlCode(thrown) == IF thrown = <<>> THEN NoCode ELSE nvml_Error_result(thrown[1])

\* std::terminate and abort end the process: nothing runs afterwards.
Running == last.outcome \notin {"terminated", "aborted"}

IsLive(h) == nvState[h] \in {"Created", "Compiled"}

RECURSIVE SumTo(_, _)
SumTo(f, n) == IF n = 0 THEN 0 ELSE f[n] + SumTo(f, n - 1)

\* The number of nvrtc::Program objects in scope.
InScope == SumTo(programs, MaxHandles)

Init ==
  /\ programs = [h \in Handles |-> 0]
  /\ nvState = [h \in Handles |-> "none"]
  /\ nvStatus = [h \in Handles |-> "none"]
  /\ destroyCalls = [h \in Handles |-> 0]
  /\ devices = [d \in DeviceHandles |-> 0]
  /\ nvmlInitCount = 0
  /\ memories = [a \in Allocators |-> 0]
  /\ allocated = [a \in Allocators |-> 0]
  /\ pc = "idle"
  /\ section = "none"
  /\ stream = <<>>
  /\ mem = [b \in Buffers |-> <<>>]
  /\ last = Done("none", NullHandle, "none", <<>>, "ok", NoCode, -1, -1)

\* --------------------------------------------------------- nvrtc::Program
\* Both constructors end in one checked nvrtcCreateProgram call, which
\* stores the new handle in the member `program`; a throwing constructor
\* leaves no object, so no destructor runs for it.
Program_construct(op, st) ==
  /\ Running
  /\ InScope < MaxPrograms
  /\ \E h \in Handles :
       /\ nvState[h] = "none"
       /\ \A g \in Handles : g < h => nvState[g] # "none"
       /\ LET thrown == checkNvrtcCall(st)
              made == st = NVRTC_SUCCESS
          IN /\ nvState' = IF made THEN [nvState EXCEPT ![h] = "Created"] ELSE nvState
             /\ programs' = IF thrown = <<>> /\ made
                              THEN [programs EXCEPT ![h] = @ + 1]
                              ELSE programs
             /\ last' = Done(op, IF made THEN h ELSE NullHandle, "none",
                             <<Call("nvrtcCreateProgram", NullHandle, st, 0)>>,
                             Outcome(thrown), Code(thrown), -1, -1)
  /\ UNCHANGED <<nvStatus, destroyCalls, otherThanNvrtc>>

\* Program(src, name, headers, includeNames)
Program_source(st) == Program_construct("Program(src)", st)

\* Program(filename)
Program_file(st) == Program_construct("Program(file)", st)

\* The implicitly generated copy constructor: the new object gets a copy of
\* the member `program` of the object it is copied from, and no native call
\* is made.
Program_copy(from) ==
  /\ Running
  /\ InScope < MaxPrograms
  /\ programs[from] > 0
  /\ programs' = [programs EXCEPT ![from] = @ + 1]
  /\ last' = Done("Program(copy)", from, nvState[from], <<>>, "ok", NoCode, -1, -1)
  /\ UNCHANGED <<nvState, nvStatus, destroyCalls, otherThanNvrtc>>

\* The implicitly generated copy assignment: the member `program` of the
\* object assigned to is overwritten, and no native call is made.
Program_assign(to, from) ==
  /\ Running
  /\ programs[to] > 0
  /\ programs[from] > 0
  /\ to # from \/ programs[to] > 1
  /\ programs' = [h \in Handles |->
                    programs[h] - (IF h = to THEN 1 ELSE 0) + (IF h = from THEN 1 ELSE 0)]
  /\ last' = Done("operator=", from, nvState[from], <<>>, "ok", NoCode, -1, -1)
  /\ UNCHANGED <<nvState, nvStatus, destroyCalls, otherThanNvrtc>>

\* What a destructor's caller sees: a destructor is noexcept, so an exception
\* leaving it ends the process in std::terminate, whether the object leaves
\* its scope normally or during the unwinding of another exception.
DestructorOutcome(thrown) == IF thrown = <<>> THEN "ok" ELSE "terminated"

\* ~Program(): checkNvrtcCall(nvrtcDestroyProgram(&program))
Program_destroy(h, st, unwinding) ==
  /\ Running
  /\ programs[h] > 0
  /\ destroyCalls[h] < MaxDestroyCalls
  /\ LET thrown == checkNvrtcCall(st)
         freed == IsLive(h) /\ st = NVRTC_SUCCESS
     IN /\ destroyCalls' = [destroyCalls EXCEPT ![h] = @ + 1]
        /\ nvState' = IF freed THEN [nvState EXCEPT ![h] = "Destroyed"] ELSE nvState
        /\ nvStatus' = IF freed THEN [nvStatus EXCEPT ![h] = "none"] ELSE nvStatus
        /\ programs' = [programs EXCEPT ![h] = @ - 1]
        /\ last' = Done(IF unwinding THEN "~Program(unwinding)" ELSE "~Program",
                        h, nvState[h],
                        <<Call("nvrtcDestroyProgram", h, st, 0)>>,
                        DestructorOutcome(thrown), Code(thrown), -1, -1)
  /\ UNCHANGED otherThanNvrtc

\* compile() forwarding the call and dropping the status it returns.
compile_unchecked(h, st) ==
  /\ Running
  /\ programs[h] > 0
  /\ nvState' = IF IsLive(h) THEN [nvState EXCEPT ![h] = "Compiled"] ELSE nvState
  /\ nvStatus' = IF IsLive(h)
                   THEN [nvStatus EXCEPT ![h] = IF st = NVRTC_SUCCESS THEN "passed" ELSE "failed"]
                   ELSE nvStatus
  /\ last' = Done("compile", h, nvState[h],
                  <<Call("nvrtcCompileProgram", h, st, 0)>>, "ok", NoCode, -1, -1)
  /\ UNCHANGED <<programs, destroyCalls, otherThanNvrtc>>

\* compile(options): one checked nvrtcCompileProgram call on the held handle.
compile(h, st) ==
  /\ Running
  /\ programs[h] > 0
  /\ LET thrown == checkNvrtcCall(st)
     IN /\ nvState' = IF IsLive(h) THEN [nvState EXCEPT ![h] = "Compiled"] ELSE nvState
        /\ nvStatus' = IF IsLive(h)
                         THEN [nvStatus EXCEPT ![h] = IF st = NVRTC_SUCCESS THEN "passed" ELSE "failed"]
                         ELSE nvStatus
        /\ last' = Done("compile", h, nvState[h],
                        <<Call("nvrtcCompileProgram", h, st, 0)>>,
                        Outcome(thrown), Code(thrown), -1, -1)
  /\ UNCHANGED <<programs, destroyCalls, otherThanNvrtc>>

\* std::string::resize(n) and std::vector<char>::resize(n): the buffer gets
\* exactly n elements, new ones value-initialised.
resize(buf, n) == [i \in 1..n |-> IF i <= Len(buf) THEN buf[i] ELSE "nul"]

\* The native fetch writes the artifact over the whole buffer it is handed.
Fetched(buf) == [i \in 1..Len(buf) |-> "byte"]

\* The body shared by getPTX, getCUBIN and getLog: a checked size query, a
\* resize of the result to the reported size, a checked fetch into &buf[0].
\* Taking cubin[0] of an empty std::vector is undefined: the build may go on
\* (the fetch gets the data pointer) or stop at the library's bounds
\* assertion; log[0] and ptx[0] of an empty std::string are defined.
SizeThenFetch(h, op, sizeFn, fetchFn, isVector, sizeSt, size, fetchSt, ub) ==
  /\ Running
  /\ programs[h] > 0
  /\ sizeSt # NVRTC_SUCCESS => size = 0 /\ fetchSt = NVRTC_SUCCESS
  /\ ub = "aborts" => isVector /\ sizeSt = NVRTC_SUCCESS /\ size = 0
                      /\ fetchSt = NVRTC_SUCCESS
  /\ LET sizeCall == Call(sizeFn, h, sizeSt, 0)
         sizeThrown == checkNvrtcCall(sizeSt)
         buf == resize(<<>>, size)
         fetchCall == Call(fetchFn, h, fetchSt, Len(buf))
         fetchThrown == checkNvrtcCall(fetchSt)
     IN last' =
             IF sizeThrown # <<>>
               THEN Done(op, h, nvState[h], <<sizeCall>>,
                         "raised", Code(sizeThrown), -1, -1)
             ELSE IF ub = "aborts"
               THEN Done(op, h, nvState[h], <<sizeCall>>, "aborted", NoCode, size, -1)
             ELSE IF fetchThrown # <<>>
               THEN Done(op, h, nvState[h], <<sizeCall, fetchCall>>,
                         "raised", Code(fetchThrown), size, -1)
             ELSE Done(op, h, nvState[h], <<sizeCall, fetchCall>>,
                       "ok", NoCode, size, Len(Fetched(buf)))
  /\ UNCHANGED <<programs, nvState, nvStatus, destroyCalls, otherThanNvrtc>>

getPTX(h, sizeSt, size, fetchSt) ==
  SizeThenFetch(h, "getPTX", "nvrtcGetPTXSize", "nvrtcGetPTX", FALSE,
                sizeSt, size, fetchSt, "defined")

getCUBIN(h, sizeSt, size, fetchSt, ub) ==
  SizeThenFetch(h, "getCUBIN", "nvrtcGetCUBINSize", "nvrtcGetCUBIN", TRUE,
                sizeSt, size, fetchSt, ub)

getLog(h, sizeSt, size, fetchSt) ==
  SizeThenFetch(h, "getLog", "nvrtcGetProgramLogSize", "nvrtcGetProgramLog", FALSE,
                sizeSt, size, fetchSt, "defined")

\* ------------------------------------------------------------ nvml::Device
\* cu::Device::getUuid(), of cu.hpp: a checked driver call.
cu_Device_getUuid(st) == checkCudaCall(st)

\* Device(int index): checkNvmlCall(nvmlInit()), then
\* checkNvmlCall(nvmlDeviceGetHandleByIndex(index, &device_)). An exception
\* leaving the constructor leaves no object, so ~Device() does not run.
Device_index(index, initSt, lookupSt) ==
  /\ Running
  /\ devices["set"] + devices["indeterminate"] < MaxDevices
  /\ nvmlInitCount < MaxInit
  /\ initSt # NVML_SUCCESS => lookupSt = NVML_SUCCESS
  /\ LET initCall == Call("nvmlInit", "none", initSt, 0)
         initThrown == checkNvmlCall(initSt)
         lookupCall == Call("nvmlDeviceGetHandleByIndex", "none", lookupSt, index)
         lookupThrown == checkNvmlCall(lookupSt)
         device_ == IF lookupSt = NVML_SUCCESS THEN "set" ELSE "indeterminate"
     IN /\ nvmlInitCount' = IF initSt = NVML_SUCCESS THEN nvmlInitCount + 1
                                                     ELSE nvmlInitCount
        /\ devices' = IF initThrown = <<>> /\ lookupThrown = <<>>
                        THEN [devices EXCEPT ![device_] = @ + 1]
                        ELSE devices
        /\ last' =
             IF initThrown # <<>>
               THEN Done("Device(index)", "none", nvmlInitCount, <<initCall>>,
                         "raised", NvmlCode(initThrown), -1, -1)
               ELSE Done("Device(index)", device_, nvmlInitCount,
                         <<initCall, lookupCall>>,
                         Outcome(lookupThrown), NvmlCode(lookupThrown), -1, -1)
  /\ UNCHANGED otherThanNvml

\* Device(cu::Device& device): checkNvmlCall(nvmlInit()), device.getUuid(),
\* then nvmlDeviceGetHandleByUUID(uuid.c_str(), &device_), whose status is
\* dropped: after a failed lookup device_ is left uninitialised.
Device_cu(initSt, uuidSt, lookupSt) ==
  /\ Running
  /\ devices["set"] + devices["indeterminate"] < MaxDevices
  /\ nvmlInitCount < MaxInit
  /\ initSt # NVML_SUCCESS => uuidSt = CUDA_SUCCESS
  /\ initSt # NVML_SUCCESS \/ uuidSt # CUDA_SUCCESS => lookupSt = NVML_SUCCESS
  /\ LET initCall == Call("nvmlInit", "none", initSt, 0)
         initThrown == checkNvmlCall(initSt)
         uuidCall == Call("cuDeviceGetUuid", "none", uuidSt, 0)
         uuidThrown == cu_Device_getUuid(uuidSt)
         lookupCall == Call("nvmlDeviceGetHandleByUUID", "none", lookupSt, 0)
         device_ == IF lookupSt = NVML_SUCCESS THEN "set" ELSE "indeterminate"
     IN /\ nvmlInitCount' = IF initSt = NVML_SUCCESS THEN nvmlInitCount + 1
                                                     ELSE nvmlInitCount
        /\ devices' = IF initThrown = <<>> /\ uuidThrown = <<>>
                        THEN [devices EXCEPT ![device_] = @ + 1]
                        ELSE devices
        /\ last' =
             IF initThrown # <<>>
               THEN Done("Device(cu::Device)", "none", nvmlInitCount, <<initCall>>,
                         "raised", NvmlCode(initThrown), -1, -1)
             ELSE IF uuidThrown # <<>>
               THEN Done("Device(cu::Device)", "none", nvmlInitCount,
                         <<initCall, uuidCall>>, "raised", CuCode(uuidThrown), -1, -1)
             ELSE Done("Device(cu::Device)", device_, nvmlInitCount,
                       <<initCall, uuidCall, lookupCall>>, "ok", NoCode, -1, -1)
  /\ UNCHANGED otherThanNvml

\* ~Device(): checkNvmlCall(nvmlShutdown())
Device_destroy(d, st, unwinding) ==
  /\ Running
  /\ devices[d] > 0
  /\ LET thrown == checkNvmlCall(st)
     IN /\ nvmlInitCount' = IF st = NVML_SUCCESS /\ nvmlInitCount > 0
                              THEN nvmlInitCount - 1
                              ELSE nvmlInitCount
        /\ devices' = [devices EXCEPT ![d] = @ - 1]
        /\ last' = Done(IF unwinding THEN "~Device(unwinding)" ELSE "~Device",
                        d, nvmlInitCount, <<Call("nvmlShutdown", "none", st, 0)>>,
                        DestructorOutcome(thrown), NvmlCode(thrown), -1, -1)
  /\ UNCHANGED otherThanNvml

\* getFieldValues(valuesCount, values): one checked call on device_.
getFieldValues(d, st) ==
  /\ Running
  /\ devices[d] > 0
  /\ LET thrown == checkNvmlCall(st)
     IN last' = Done("getFieldValues", d, nvmlInitCount,
                     <<Call("nvmlDeviceGetFieldValues", d, st, 0)>>,
                     Outcome(thrown), NvmlCode(thrown), -1, -1)
  /\ UNCHANGED <<nvmlVars, otherThanNvml>>

\* A caller's own use of the check functions on a status it holds.
Check_nvrtc(result) ==
  /\ Running
  /\ LET thrown == checkNvrtcCall(result)
     IN last' = Done("checkNvrtcCall", NullHandle, "none",
                     <<Call("none", NullHandle, result, 0)>>,
                     Outcome(thrown), Code(thrown), -1, -1)
  /\ UNCHANGED <<nvmlVars, otherThanNvml>>

Check_nvml(result) ==
  /\ Running
  /\ LET thrown == checkNvmlCall(result)
     IN last' = Done("checkNvmlCall", NullHandle, "none",
                     <<Call("none", NullHandle, result, 0)>>,
                     Outcome(thrown), NvmlCode(thrown), -1, -1)
  /\ UNCHANGED <<nvmlVars, otherThanNvml>>

\* -------------------------------------------------------- cu::DeviceMemory
\* The policy without its check of the type tag: whatever is not
\* device-resident is handed to the managed allocator.
Allocator_anyType(type, flags) ==
  IF type = "CU_MEMORYTYPE_DEVICE" /\ flags = 0 THEN "cuMemAlloc"
  ELSE IF type = "CU_MEMORYTYPE_DEVICE" THEN "refused"
  ELSE "cuMemAllocManaged"

\* The policy without its check of the flags of the device-resident type.
Allocator_anyFlags(type, flags) ==
  IF type = "CU_MEMORYTYPE_DEVICE" THEN "cuMemAlloc"
  ELSE IF type = "CU_MEMORYTYPE_UNIFIED" THEN "cuMemAllocManaged"
  ELSE "refused"

\* The allocator the typing policy lets a (type, flags) pair reach: the
\* device-resident type with no flags, or the unified/managed type; every
\* other pair is refused.
Allocator(type, flags) ==
  IF type = "CU_MEMORYTYPE_DEVICE" /\ flags = 0 THEN "cuMemAlloc"
  ELSE IF type = "CU_MEMORYTYPE_UNIFIED" THEN "cuMemAllocManaged"
  ELSE "refused"

\* DeviceMemory(size, type, flags): the policy is applied first, and a pair
\* it refuses raises with no native call made; otherwise one checked call of
\* the allocator.
DeviceMemory_construct(size, type, flags, st) ==
  /\ Running
  /\ memories["cuMemAlloc"] + memories["cuMemAllocManaged"] < MaxMemories
  /\ LET a == Allocator(type, flags)
         thrown == checkCudaCall(st)
         before == allocated["cuMemAlloc"] + allocated["cuMemAllocManaged"]
     IN IF a = "refused"
          THEN /\ st = CUDA_SUCCESS
               /\ last' = Done("DeviceMemory", <<type, flags>>, before, <<>>,
                               "raised", NoCode, size, -1)
               /\ UNCHANGED memVars
          ELSE /\ allocated' = IF st = CUDA_SUCCESS
                                 THEN [allocated EXCEPT ![a] = @ + 1]
                                 ELSE allocated
               /\ memories' = IF thrown = <<>> THEN [memories EXCEPT ![a] = @ + 1]
                                               ELSE memories
               /\ last' = Done("DeviceMemory", <<type, flags>>, before,
                               <<Call(a, NullHandle, st, IF a = "cuMemAlloc" THEN 0 ELSE flags)>>,
                               Outcome(thrown), CuCode(thrown), size, -1)
  /\ UNCHANGED otherThanMem

\* ~DeviceMemory(): the buffer is released with one checked cuMemFree call.
DeviceMemory_destroy(a, st) ==
  /\ Running
  /\ memories[a] > 0
  /\ LET thrown == checkCudaCall(st)
     IN /\ memories' = [memories EXCEPT ![a] = @ - 1]
        /\ allocated' = IF st = CUDA_SUCCESS THEN [allocated EXCEPT ![a] = @ - 1]
                                             ELSE allocated
        /\ last' = Done("~DeviceMemory", a,
                        allocated["cuMemAlloc"] + allocated["cuMemAllocManaged"],
                        <<Call("cuMemFree", NullHandle, st, 0)>>,
                        DestructorOutcome(thrown), CuCode(thrown), -1, -1)
  /\ UNCHANGED otherThanMem

\* ------------------------------------------------------- the vector-add test
\* The floats of the test are integers far below 2^24, so float arithmetic
\* on them is exact and they are modelled as integers; element i of a C
\* array is element i + 1 of the sequence.

\* initialize_arrays(a, b, c, r, N)
initialize_a(n) == [k \in 1..n |-> 1 + (k - 1)]
initialize_b(n) == [k \in 1..n |-> 2 - (n - (k - 1))]
initialize_c(n) == [k \in 1..n |-> 0]
initialize_r(n) == [k \in 1..n |-> initialize_a(n)[k] + initialize_b(n)[k]]

\* check_arrays_equal(a, b, n): every CHECK holds.
check_arrays_equal(a, b, n) == \A k \in 1..n : a[k] = b[k]

\* The kernel with c[i] = a[i] - b[i].
vector_add_minus(c, a, b, n, i) ==
  IF i < n THEN [c EXCEPT ![i + 1] = a[i + 1] - b[i + 1]] ELSE c

\* The kernel vector_add(c, a, b, n) as run by the thread whose
\* blockIdx.x * blockDim.x + threadIdx.x is i: the array c it leaves.
vector_add(c, a, b, n, i) ==
  IF i < n THEN [c EXCEPT ![i + 1] = a[i + 1] + b[i + 1]] ELSE c

\* The steps of a run of the test, in program order. Catch2 runs the test
\* case once for each SECTION.
Script(sec) ==
  <<"setup", "program", "compile", "module">> \o
  (CASE sec = "Run kernel" ->
          <<"host init", "alloc", "copy a", "copy b", "launch", "copy back">>
     [] sec = "Run kernel with managed memory" ->
          <<"alloc", "managed init", "launch">>
     [] sec = "Run kernel with managed memory and prefetch" ->
          <<"attribute", "alloc", "managed init", "prefetch a", "prefetch b",
            "launch", "prefetch c">>) \o
  <<"synchronize", "check">>

After(sec, step) ==
  LET s == Script(sec)
      i == CHOOSE j \in 1..Len(s) : s[j] = step
  IN s[i + 1]

\* The buffer the host reads the result from.
Output(sec) == IF sec = "Run kernel" THEN "h_c" ELSE "d_c"

\* A step that comes down to checked native calls, of which st is the status
\* of the first to fail: the test goes on, or the exception leaves it.
Step(step, fn, thrown, st) ==
  /\ Running
  /\ pc = step
  /\ pc' = IF thrown = <<>> THEN After(section, step) ELSE "raised"
  /\ last' = Done(step, NullHandle, "none", <<Call(fn, NullHandle, st, 0)>>,
                  Outcome(thrown), CuCode(thrown), -1, -1)
  /\ UNCHANGED <<section, otherThanTest>>

Test_start(sec) ==
  /\ pc = "idle"
  /\ pc' = "setup"
  /\ section' = sec
  /\ UNCHANGED <<stream, mem, last, otherThanTest>>

\* cu::init(), cu::Device, cu::Context, cu::Stream
Test_setup(st) ==
  /\ Step("setup", "cuInit", checkCudaCall(st), st)
  /\ UNCHANGED <<stream, mem>>

\* nvrtc::Program program(kernel, "vector_add_kernel.cu")
Test_program(st) ==
  /\ Step("program", "nvrtcCreateProgram", checkNvrtcCall(st), st)
  /\ UNCHANGED <<stream, mem>>

\* try { program.compile(options); } catch (nvrtc::Error &) { ... }
Test_compile(st) ==
  /\ Running
  /\ pc = "compile"
  /\ LET thrown == checkNvrtcCall(st)
     IN /\ pc' = IF thrown = <<>> THEN After(section, "compile") ELSE "catch"
        /\ last' = Done("compile", NullHandle, "none",
                        <<Call("nvrtcCompileProgram", NullHandle, st, 0)>>,
                        Outcome(thrown), Code(thrown), -1, -1)
  /\ UNCHANGED <<section, stream, mem, otherThanTest>>

\* The catch block: std::cerr << program.getLog(); throw;
Test_catch ==
  /\ pc = "catch"
  /\ pc' = "raised"
  /\ UNCHANGED <<section, stream, mem, last, otherThanTest>>

\* cu::Module module(program.getPTX().data()); cu::Function function(...)
Test_module(st) ==
  /\ Step("module", "cuModuleLoadData", checkCudaCall(st), st)
  /\ UNCHANGED <<stream, mem>>

\* cu::HostMemory h_a, h_b, h_c; std::vector reference_c; initialize_arrays
Test_host_init(st) ==
  /\ Step("host init", "cuMemHostAlloc", checkCudaCall(st), st)
  /\ mem' = IF st = CUDA_SUCCESS
              THEN [mem EXCEPT !["h_a"] = initialize_a(N), !["h_b"] = initialize_b(N),
                               !["h_c"] = initialize_c(N),
                               !["reference_c"] = initialize_r(N)]
              ELSE mem
  /\ UNCHANGED stream

\* cu::DeviceMemory d_a, d_b, d_c: fresh memory holds anything.
Test_alloc(st, junk) ==
  /\ Step("alloc", IF section = "Run kernel" THEN "cuMemAlloc" ELSE "cuMemAllocManaged",
          checkCudaCall(st), st)
  /\ mem' = IF st = CUDA_SUCCESS
              THEN [mem EXCEPT !["d_a"] = [k \in 1..N |-> junk],
                               !["d_b"] = [k \in 1..N |-> junk],
                               !["d_c"] = [k \in 1..N |-> junk]]
              ELSE mem
  /\ UNCHANGED stream

\* initialize_arrays on the managed buffers, through their host pointers.
Test_managed_init ==
  /\ Running
  /\ pc = "managed init"
  /\ pc' = After(section, "managed init")
  /\ mem' = [mem EXCEPT !["d_a"] = initialize_a(N), !["d_b"] = initialize_b(N),
                        !["d_c"] = initialize_c(N), !["reference_c"] = initialize_r(N)]
  /\ UNCHANGED <<section, stream, last, otherThanTest>>

\* if (device.getAttribute(CU_DEVICE_ATTRIBUTE_CONCURRENT_MANAGED_ACCESS))
Test_attribute(st, supported) ==
  /\ Running
  /\ pc = "attribute"
  /\ LET thrown == checkCudaCall(st)
     IN /\ pc' = IF thrown # <<>> THEN "raised"
                 ELSE IF supported THEN After(section, "attribute")
                 ELSE "skipped"
        /\ last' = Done("attribute", NullHandle, "none",
                        <<Call("cuDeviceGetAttribute", NullHandle, st, 0)>>,
                        Outcome(thrown), CuCode(thrown), -1, -1)
  /\ UNCHANGED <<section, stream, mem, otherThanTest>>

\* An asynchronous operation is submitted to the stream: the call returns at
\* once, and the operation runs when those submitted before it have completed.
Submit(step, fn, op, st) ==
  /\ Step(step, fn, checkCudaCall(st), st)
  /\ stream' = IF st = CUDA_SUCCESS THEN Append(stream, op) ELSE stream
  /\ UNCHANGED mem

Copy(dst, src) == [op |-> "copy", dst |-> dst, src |-> src, todo |-> {}]
Prefetch(b) == [op |-> "prefetch", dst |-> b, src |-> b, todo |-> {}]
\* launchKernel(function, 1, 1, 1, N, 1, 1, 0, parameters): one block of N threads.
Launch == [op |-> "kernel", dst |-> "d_c", src |-> "d_a", todo |-> 0..(N - 1)]

\* stream.memcpyHtoDAsync(d_a, h_a, bytesize)
Test_copy_a(st) == Submit("copy a", "cuMemcpyHtoDAsync", Copy("d_a", "h_a"), st)

\* stream.memcpyHtoDAsync(d_b, h_b, bytesize)
Test_copy_b(st) == Submit("copy b", "cuMemcpyHtoDAsync", Copy("d_b", "h_b"), st)

\* stream.launchKernel(...)
Test_launch(st) == Submit("launch", "cuLaunchKernel", Launch, st)

\* stream.memcpyDtoHAsync(h_c, d_c, bytesize)
Test_copy_back(st) == Submit("copy back", "cuMemcpyDtoHAsync", Copy("h_c", "d_c"), st)

\* stream.memPrefetchAsync(d_a, device, bytesize)
Test_prefetch_a(st) == Submit("prefetch a", "cuMemPrefetchAsync", Prefetch("d_a"), st)

\* stream.memPrefetchAsync(d_b, device, bytesize)
Test_prefetch_b(st) == Submit("prefetch b", "cuMemPrefetchAsync", Prefetch("d_b"), st)

\* stream.memPrefetchAsync(d_c, CU_DEVICE_CPU, bytesize)
Test_prefetch_c(st) == Submit("prefetch c", "cuMemPrefetchAsync", Prefetch("d_c"), st)

\* stream.synchronize(): returns once everything submitted has completed.
Test_synchronize(st) ==
  /\ stream = <<>>
  /\ Step("synchronize", "cuStreamSynchronize", checkCudaCall(st), st)
  /\ UNCHANGED <<stream, mem>>

\* check_arrays_equal(h_c, reference_c.data(), N)
Test_check ==
  /\ Running
  /\ pc = "check"
  /\ pc' = IF check_arrays_equal(mem[Output(section)], mem["reference_c"], N)
             THEN "passed" ELSE "failed"
  /\ UNCHANGED <<section, stream, mem, last, otherThanTest>>

\* The device runs the oldest operation of the stream: a copy, a prefetch
\* (which moves pages and changes no content), or one more thread of the
\* kernel, whose threads run in any order.
Stream_run ==
  /\ stream # <<>>
  /\ LET head == Head(stream)
     IN CASE head.op = "copy" ->
               /\ mem' = [mem EXCEPT ![head.dst] = mem[head.src]]
               /\ stream' = Tail(stream)
          [] head.op = "prefetch" ->
               /\ mem' = mem
               /\ stream' = Tail(stream)
          [] head.op = "kernel" ->
               \E i \in head.todo :
                 /\ mem' = [mem EXCEPT !["d_c"] =
                              vector_add(mem["d_c"], mem["d_a"], mem["d_b"], N, i)]
                 /\ stream' = IF head.todo = {i}
                                THEN Tail(stream)
                                ELSE <<[head EXCEPT !.todo = @ \ {i}]>> \o Tail(stream)
  /\ UNCHANGED <<pc, section, last, otherThanTest>>

Next ==
  \/ \E st \in Results : Program_source(st)
  \/ \E st \in Results : Program_file(st)
  \/ \E from \in Handles : Program_copy(from)
  \/ \E to \in Handles, from \in Handles : Program_assign(to, from)
  \/ \E h \in Handles, st \in Results, unwinding \in BOOLEAN :
       Program_destroy(h, st, unwinding)
  \/ \E h \in Handles, st \in Results : compile(h, st)
  \/ \E h \in Handles, sizeSt \in Results, size \in Sizes, fetchSt \in Results :
       getPTX(h, sizeSt, size, fetchSt)
  \/ \E h \in Handles, sizeSt \in Results, size \in Sizes, fetchSt \in Results,
          ub \in {"goes on", "aborts"} : getCUBIN(h, sizeSt, size, fetchSt, ub)
  \/ \E h \in Handles, sizeSt \in Results, size \in Sizes, fetchSt \in Results :
       getLog(h, sizeSt, size, fetchSt)

Spec == Init /\ [][Next]_vars

\* The life of a Program with compile and getLog, as the test drives it.
NextCompile ==
  \/ \E st \in Results : Program_source(st)
  \/ \E st \in Results : Program_file(st)
  \/ \E from \in Handles : Program_copy(from)
  \/ \E to \in Handles, from \in Handles : Program_assign(to, from)
  \/ \E h \in Handles, st \in Results, unwinding \in BOOLEAN :
       Program_destroy(h, st, unwinding)
  \/ \E h \in Handles, st \in Results : compile(h, st)
  \/ \E h \in Handles, sizeSt \in Results, size \in Sizes, fetchSt \in Results :
       getLog(h, sizeSt, size, fetchSt)

SpecCompile == Init /\ [][NextCompile]_vars

\* The telemetry wrapper and the check functions.
NextNvml ==
  \/ \E index \in Indices, initSt \in Results, lookupSt \in Results :
       Device_index(index, initSt, lookupSt)
  \/ \E initSt \in Results, uuidSt \in Results, lookupSt \in Results :
       Device_cu(initSt, uuidSt, lookupSt)
  \/ \E d \in DeviceHandles, st \in Results, unwinding \in BOOLEAN :
       Device_destroy(d, st, unwinding)
  \/ \E d \in DeviceHandles, st \in Results : getFieldValues(d, st)
  \/ \E result \in Results : Check_nvrtc(result)
  \/ \E result \in Results : Check_nvml(result)

SpecNvml == Init /\ [][NextNvml]_vars

\* The device-memory typing policy.
NextMem ==
  \/ \E size \in 1..MaxBytes, type \in MemoryTypes, flags \in Flags, st \in Results :
       DeviceMemory_construct(size, type, flags, st)
  \/ \E a \in Allocators, st \in Results : DeviceMemory_destroy(a, st)

SpecMem == Init /\ [][NextMem]_vars

\* The vector-add test, one SECTION a run.
NextTest ==
  \/ \E sec \in Sections : Test_start(sec)
  \/ \E st \in Results : Test_setup(st)
  \/ \E st \in Results : Test_program(st)
  \/ \E st \in Results : Test_compile(st)
  \/ Test_catch
  \/ \E st \in Results : Test_module(st)
  \/ \E st \in Results : Test_host_init(st)
  \/ \E st \in Results, junk \in Junk : Test_alloc(st, junk)
  \/ Test_managed_init
  \/ \E st \in Results, supported \in BOOLEAN : Test_attribute(st, supported)
  \/ \E st \in Results : Test_copy_a(st)
  \/ \E st \in Results : Test_copy_b(st)
  \/ \E st \in Results : Test_launch(st)
  \/ \E st \in Results : Test_copy_back(st)
  \/ \E st \in Results : Test_prefetch_a(st)
  \/ \E st \in Results : Test_prefetch_b(st)
  \/ \E st \in Results : Test_prefetch_c(st)
  \/ \E st \in Results : Test_synchronize(st)
  \/ Test_check
  \/ Stream_run

SpecTest == Init /\ [][NextTest]_vars

\* ------------------------------------------------------------------ claims
CheckOps == {"checkNvrtcCall", "checkNvmlCall"}
ProgramConstructors == {"Program(src)", "Program(file)"}
ProgramDestructors == {"~Program", "~Program(unwinding)"}
DeviceConstructors == {"Device(index)", "Device(cu::Device)"}
DeviceDestructors == {"~Device", "~Device(unwinding)"}
Queries == {"getPTX", "getCUBIN", "getLog"}

SizeFn(op) == CASE op = "getPTX" -> "nvrtcGetPTXSize"
                [] op = "getCUBIN" -> "nvrtcGetCUBINSize"
                [] op = "getLog" -> "nvrtcGetProgramLogSize"

FetchFn(op) == CASE op = "getPTX" -> "nvrtcGetPTX"
                 [] op = "getCUBIN" -> "nvrtcGetCUBIN"
                 [] op = "getLog" -> "nvrtcGetProgramLog"

\* The native calls of the last operation that reported a non-success status.
FailedCalls(fns) ==
  {i \in 1..Len(last.calls) : last.calls[i].fn \in fns /\ last.calls[i].st # 0}

\* C1: checkNvrtcCall and checkNvmlCall return normally on the success code,
\* and on any other code raise an Error whose conversion back to the native
\* status type gives exactly the code they were called with.
C1_CheckRaisesTheInputCode ==
  last.op \in CheckOps =>
    LET input == last.calls[1].st
        success == IF last.op = "checkNvrtcCall" THEN NVRTC_SUCCESS ELSE NVML_SUCCESS
    IN /\ input = success => last.outcome = "ok" /\ last.code = NoCode
       /\ input # success => last.outcome = "raised" /\ last.code = input

C1_Witness ==
  /\ last.op = "checkNvrtcCall"
  /\ last.calls[1].st = MaxError
  /\ last.outcome = "raised"
  /\ last.code = MaxError

\* C2: compile() on a Created program leaves it Compiled whatever the status;
\* a non-success status is raised as an Error carrying it and destroys
\* nothing, and a later getLog() on the program is forwarded to the native
\* library and returns the log at the size the library reported.
C2_CompileThenGetLog ==
  /\ (last.op = "compile" /\ last.pre = "Created") =>
       LET st == last.calls[1].st
       IN /\ nvState[last.h] = "Compiled"
          /\ st = NVRTC_SUCCESS => last.outcome = "ok"
          /\ st # NVRTC_SUCCESS =>
               /\ last.outcome = "raised"
               /\ last.code = st
               /\ nvStatus[last.h] = "failed"
               /\ programs[last.h] > 0
               /\ destroyCalls[last.h] = 0
  /\ (last.op = "getLog" /\ last.pre = "Compiled") =>
       /\ last.calls[1].fn = "nvrtcGetProgramLogSize"
       /\ last.calls[1].h = last.h
       /\ nvState[last.h] = "Compiled"
       /\ FailedCalls({"nvrtcGetProgramLogSize", "nvrtcGetProgramLog"}) = {} =>
            /\ last.outcome = "ok"
            /\ last.calls[2].fn = "nvrtcGetProgramLog"
            /\ last.calls[2].h = last.h
            /\ last.len = last.size

C2_Witness ==
  /\ last.op = "getLog"
  /\ last.pre = "Compiled"
  /\ nvStatus[last.h] = "failed"
  /\ last.outcome = "ok"
  /\ last.len = MaxSize

\* C3: every handle nvrtcCreateProgram returned gets exactly one
\* nvrtcDestroyProgram call, never two, and one once no Program object holds
\* it; and no call is forwarded to a handle that was destroyed.
C3_DestroyedExactlyOnce ==
  /\ \A h \in Handles :
       /\ destroyCalls[h] <= 1
       /\ (nvState[h] # "none" /\ programs[h] = 0) => destroyCalls[h] = 1
  /\ (last.h \in Handles /\ last.calls # <<>>) => last.pre # "Destroyed"

\* C4: a constructor that raises holds nothing afterwards: when nvmlInit or
\* the handle lookup fails in a Device constructor, the constructor raises and
\* the unmatched nvmlInit count is what it was before; a failed
\* nvrtcCreateProgram raises and leaves no handle.
C4_FailedConstructionHoldsNothing ==
  /\ (/\ last.op \in DeviceConstructors
      /\ FailedCalls({"nvmlInit", "nvmlDeviceGetHandleByIndex",
                      "nvmlDeviceGetHandleByUUID"}) # {}) =>
       /\ last.outcome = "raised"
       /\ nvmlInitCount = last.pre
  /\ (last.op \in ProgramConstructors /\ FailedCalls({"nvrtcCreateProgram"}) # {}) =>
       /\ last.outcome = "raised"
       /\ last.h = NullHandle

\* C5: a non-success status of a native call made by a constructor or a
\* member function is raised to the caller; a Device constructor whose handle
\* lookup fails raises an Error carrying the status, and every Device in
\* scope has a device_ that a successful lookup set.
C5_EveryStatusIsChecked ==
  /\ devices["indeterminate"] = 0
  /\ (last.op \in DeviceConstructors \cup {"getFieldValues"}) =>
       \A i \in 1..Len(last.calls) :
         last.calls[i].st # 0 => last.outcome = "raised" /\ last.code = last.calls[i].st

\* C6: constructing a DeviceMemory with a type tag that is neither
\* device-resident nor unified/managed raises, with no native allocation
\* call made and the allocated native buffers what they were.
C6_DisallowedTypeRaisesFirst ==
  (/\ last.op = "DeviceMemory"
   /\ last.h[1] \notin {"CU_MEMORYTYPE_DEVICE", "CU_MEMORYTYPE_UNIFIED"}) =>
    /\ last.outcome = "raised"
    /\ last.calls = <<>>
    /\ allocated["cuMemAlloc"] + allocated["cuMemAllocManaged"] = last.pre

C6_Witness ==
  /\ last.op = "DeviceMemory"
  /\ last.h[1] = "CU_MEMORYTYPE_ARRAY"
  /\ last.outcome = "raised"
  /\ last.pre > 0

\* C7: the device-resident type with flags 0 is allocated with cuMemAlloc and
\* the construction succeeds when that call does; the device-resident type
\* with non-zero flags raises with no native call; the unified/managed type
\* with CU_MEM_ATTACH_HOST or CU_MEM_ATTACH_GLOBAL is allocated with
\* cuMemAllocManaged under those flags and succeeds when that call does.
C7_FlagsOnlyWithManaged ==
  last.op = "DeviceMemory" =>
    LET type == last.h[1]
        flags == last.h[2]
    IN /\ (type = "CU_MEMORYTYPE_DEVICE" /\ flags = 0) =>
            /\ Len(last.calls) = 1
            /\ last.calls[1].fn = "cuMemAlloc"
            /\ last.calls[1].st = CUDA_SUCCESS => last.outcome = "ok"
       /\ (type = "CU_MEMORYTYPE_DEVICE" /\ flags # 0) =>
            /\ last.outcome = "raised"
            /\ last.calls = <<>>
       /\ (type = "CU_MEMORYTYPE_UNIFIED"
           /\ flags \in {CU_MEM_ATTACH_HOST, CU_MEM_ATTACH_GLOBAL}) =>
            /\ Len(last.calls) = 1
            /\ last.calls[1].fn = "cuMemAllocManaged"
            /\ last.calls[1].arg = flags
            /\ last.calls[1].st = CUDA_SUCCESS => last.outcome = "ok"

C7_Witness ==
  /\ last.op = "DeviceMemory"
  /\ last.h = <<"CU_MEMORYTYPE_UNIFIED", CU_MEM_ATTACH_HOST>>
  /\ last.outcome = "ok"
  /\ memories["cuMemAllocManaged"] = MaxMemories

\* C8: in a run of a kernel section no check fails; an error leaves the test
\* only when a native call reported a non-success status; the host compares
\* the output only once the stream is empty after synchronize; and the output
\* a passed run compared is c[i] = a[i] + b[i] with a[i] = 1 + i and
\* b[i] = 2 - (N - i), the same in the plain and the two managed sections.
C8_VectorAddPasses ==
  /\ pc # "failed"
  /\ pc = "raised" => FailedCalls({last.calls[1].fn}) # {}
  /\ pc \in {"check", "passed"} => stream = <<>>
  /\ pc = "passed" =>
       /\ Len(mem[Output(section)]) = N
       /\ \A i \in 0..(N - 1) :
            mem[Output(section)][i + 1] = (1 + i) + (2 - (N - i))

C8_Witness ==
  /\ pc = "passed"
  /\ section = "Run kernel with managed memory and prefetch"
  /\ mem["d_c"][N] = N + 1

\* C9: getPTX, getCUBIN and getLog call the size query, size the result to
\* what it reported and call the fetch once into it; a failed size query
\* raises and no fetch is made; on success the result has the reported
\* length; and the program held and its native state are left as they were.
C9_SizeThenFetch ==
  last.op \in Queries =>
    /\ Len(last.calls) >= 1
    /\ last.calls[1].fn = SizeFn(last.op)
    /\ last.calls[1].h = last.h
    /\ last.calls[1].st # NVRTC_SUCCESS =>
         /\ Len(last.calls) = 1
         /\ last.outcome = "raised"
         /\ last.code = last.calls[1].st
    /\ last.calls[1].st = NVRTC_SUCCESS =>
         /\ Len(last.calls) = 2
         /\ last.calls[2].fn = FetchFn(last.op)
         /\ last.calls[2].h = last.h
         /\ last.calls[2].arg = last.size
    /\ last.outcome = "ok" => last.len = last.size
    /\ nvState[last.h] = last.pre
    /\ programs[last.h] > 0

\* C10: a non-success status of the release call in ~Program() or ~Device()
\* reaches the caller as an Error that can be caught and that carries the
\* status, whether the object leaves its scope normally or in an unwinding.
C10_DestructorErrorIsCatchable ==
  last.op \in ProgramDestructors \cup DeviceDestructors =>
    (last.calls[1].st # 0 => last.outcome = "raised" /\ last.code = last.calls[1].st)
====
